---- MODULE Spec2Model ----
(***************************************************************************)
(* Model of Graphics/GraphicsEngine/src/PipelineResourceSignatureBase.cpp: *)
(* ValidatePipelineResourceSignatureDesc, FindImmutableSampler,            *)
(* PipelineResourceSignaturesCompatible and                                *)
(* CalculatePipelineResourceSignatureDescHash.                             *)
(*                                                                         *)
(* Conventions.  A C string is the sequence of its characters (without the *)
(* terminating zero); the null pointer is the value nullptr.  A bit mask   *)
(* (SHADER_TYPE, PIPELINE_RESOURCE_FLAGS) is the set of its bits, each bit *)
(* given by its integer value; & is \cap, | is \cup.  An array given by a  *)
(* pointer and a count is a sequence and the count; the null array is the  *)
(* empty sequence.  Array indices are 1-based here, 0-based in the source. *)
(***************************************************************************)
EXTENDS Integers, Sequences, FiniteSets, TLC

VARIABLES
    pc,                                   \* position of the caller
    Desc0,                                \* descriptor passed to Validate / Compatible / Hash
    Desc1,                                \* second descriptor of Compatible
    ShaderResourceRuntimeArraySupported,  \* capability argument of Validate
    FindArgs,                             \* arguments of FindImmutableSampler
    ValidateResult,                       \* outcome of Validate
    FindResult,                           \* value returned by FindImmutableSampler
    CompatResult,                         \* value returned by PipelineResourceSignaturesCompatible
    Hash0,                                \* hash of Desc0
    Hash1                                 \* hash of Desc1

vars == <<pc, Desc0, Desc1, ShaderResourceRuntimeArraySupported, FindArgs,
          ValidateResult, FindResult, CompatResult, Hash0, Hash1>>

-----------------------------------------------------------------------------
(* Values of the engine's headers                                          *)

nullptr == <<"nullptr">>

SHADER_TYPE_UNKNOWN == {}
SHADER_TYPE_VERTEX == 1
SHADER_TYPE_PIXEL == 2

SHADER_RESOURCE_TYPE_TEXTURE_SRV == 2
SHADER_RESOURCE_TYPE_SAMPLER == 6
SHADER_RESOURCE_TYPE_INPUT_ATTACHMENT == 7

SHADER_RESOURCE_VARIABLE_TYPE_STATIC == 0
SHADER_RESOURCE_VARIABLE_TYPE_MUTABLE == 1

PIPELINE_RESOURCE_FLAG_COMBINED_SAMPLER == 2
PIPELINE_RESOURCE_FLAG_RUNTIME_ARRAY == 8

MAX_RESOURCE_SIGNATURES == 8
MAX_RESOURCES_IN_SIGNATURE == 256

\* ~0u of width 32, held as the signed reading of the same bits
InvalidImmutableSamplerIndex == -1

\* The flags a resource type may carry.
GetValidPipelineResourceFlags(ResourceType) ==
    IF ResourceType = SHADER_RESOURCE_TYPE_TEXTURE_SRV
    THEN {PIPELINE_RESOURCE_FLAG_COMBINED_SAMPLER, PIPELINE_RESOURCE_FLAG_RUNTIME_ARRAY}
    ELSE IF ResourceType = SHADER_RESOURCE_TYPE_SAMPLER
    THEN {PIPELINE_RESOURCE_FLAG_RUNTIME_ARRAY}
    ELSE {}

\* Uint32{mask}: the integer value of a bit set.
RECURSIVE Uint32(_)
Uint32(mask) ==
    IF mask = {} THEN 0
    ELSE LET b == CHOOSE x \in mask : TRUE IN b + Uint32(mask \ {b})

-----------------------------------------------------------------------------
(* ValidatePipelineResourceSignatureDesc                                   *)

\* operator[] of the name -> stages maps: a missing key is value-initialised.
UsedStagesOf(StagesMap, Name) ==
    IF Name \in DOMAIN StagesMap THEN StagesMap[Name] ELSE SHADER_TYPE_UNKNOWN

SetUsedStages(StagesMap, Name, Stages) ==
    [k \in (DOMAIN StagesMap) \cup {Name} |-> IF k = Name THEN Stages ELSE StagesMap[k]]

\* The checks made before the resources are scanned.
ValidateDescHeader(Desc) ==
    IF Desc.BindingIndex >= MAX_RESOURCE_SIGNATURES THEN "BindingIndexExceedsMax"
    ELSE IF Desc.NumResources > MAX_RESOURCES_IN_SIGNATURE THEN "NumResourcesExceedsMax"
    ELSE IF Desc.NumResources # 0 /\ Desc.Resources = <<>> THEN "ResourcesNull"
    ELSE IF Desc.NumImmutableSamplers # 0 /\ Desc.ImmutableSamplers = <<>> THEN "ImmutableSamplersNull"
    ELSE IF Desc.UseCombinedTextureSamplers
            /\ (Desc.CombinedSamplerSuffix = nullptr \/ Desc.CombinedSamplerSuffix = <<>>)
    THEN "CombinedSamplerSuffixNullOrEmpty"
    ELSE "OK"

\* Mutant of StagesOverlap: the masks are compared for equality.
StagesOverlapIfEqual(UsedStages, ShaderStages) == UsedStages = ShaderStages

\* (UsedStages & Res.ShaderStages) != 0
StagesOverlap(UsedStages, ShaderStages) == (UsedStages \cap ShaderStages) # {}

\* Mutant of AccumulateStages: the mask is assigned, not or-ed in.
AccumulateStagesAssigned(UsedStages, ShaderStages) == ShaderStages

\* UsedStages |= Res.ShaderStages
AccumulateStages(UsedStages, ShaderStages) == UsedStages \cup ShaderStages

RuntimeArrayNotSupported(Res, RuntimeArraySupported) ==
    /\ (Res.Flags \cap {PIPELINE_RESOURCE_FLAG_RUNTIME_ARRAY}) # {}
    /\ ~RuntimeArraySupported

\* Mutant of FlagsNotAllowed: flags are refused only when none of them is allowed.
FlagsNotAllowedIfNoneAllowed(Res) ==
    /\ Res.Flags # {}
    /\ (Res.Flags \cap GetValidPipelineResourceFlags(Res.ResourceType)) = {}

FlagsNotAllowed(Res) ==
    (Res.Flags \ GetValidPipelineResourceFlags(Res.ResourceType)) # {}

\* The loop over Desc.Resources; ResourceShaderStages is the map built so far.
RECURSIVE ScanResources(_, _, _, _)
ScanResources(Desc, RuntimeArraySupported, i, ResourceShaderStages) ==
    IF i > Desc.NumResources THEN "OK"
    ELSE LET Res == Desc.Resources[i]
             UsedStages == UsedStagesOf(ResourceShaderStages, Res.Name)
         IN  IF Res.Name = nullptr THEN "ResourceNameNull"
             ELSE IF Res.Name = <<>> THEN "ResourceNameEmpty"
             ELSE IF Res.ShaderStages = SHADER_TYPE_UNKNOWN THEN "ResourceStagesUnknown"
             ELSE IF Res.ArraySize = 0 THEN "ResourceArraySizeZero"
             ELSE IF StagesOverlap(UsedStages, Res.ShaderStages) THEN "ResourceStagesOverlap"
             ELSE IF RuntimeArrayNotSupported(Res, RuntimeArraySupported) THEN "RuntimeArrayNotSupported"
             ELSE IF FlagsNotAllowed(Res) THEN "FlagsNotAllowed"
             ELSE ScanResources(Desc, RuntimeArraySupported, i + 1,
                      SetUsedStages(ResourceShaderStages, Res.Name,
                                    AccumulateStages(UsedStages, Res.ShaderStages)))

\* Mutant of SamplerStagesOverlap: every entry of the name is taken.
SamplerStagesOverlapIgnored(Sam, Res) == TRUE

\* (Sam.ShaderStages & Res.ShaderStages) != 0
SamplerStagesOverlap(Sam, Res) == (Sam.ShaderStages \cap Res.ShaderStages) # {}

\* Mutant of CheckAssignedSampler: the stages are not compared.
CheckAssignedSamplerWithoutStages(Sam, Res) ==
    IF Sam.ResourceType # SHADER_RESOURCE_TYPE_SAMPLER THEN "AssignedResourceNotSampler"
    ELSE IF Sam.VarType # Res.VarType THEN "SamplerVarTypeDiffers"
    ELSE "OK"

\* The checks on the sampler selected for texture Res.
CheckAssignedSampler(Sam, Res) ==
    IF Sam.ResourceType # SHADER_RESOURCE_TYPE_SAMPLER THEN "AssignedResourceNotSampler"
    ELSE IF Sam.ShaderStages # Res.ShaderStages THEN "SamplerStagesDiffer"
    ELSE IF Sam.VarType # Res.VarType THEN "SamplerVarTypeDiffers"
    ELSE "OK"

\* Mutant of CheckUnassignedSamplers: the loop is left out.
CheckUnassignedSamplersSkipped(Desc, ResourcesByName) == "OK"

\* The loop over what is left in ResourcesByName.
CheckUnassignedSamplers(Desc, ResourcesByName) ==
    IF \E k \in ResourcesByName : Desc.Resources[k].ResourceType = SHADER_RESOURCE_TYPE_SAMPLER
    THEN "SamplerNotAssigned"
    ELSE "OK"

\* The loop over the textures.  ResourcesByName is the multimap, held as the set
\* of the indices of the resources still in it.  The order in which equal_range
\* enumerates the entries of one name is unspecified: every entry of the range
\* that overlaps the texture's stages may be the first one found.  The result is
\* the set of possible outcomes; Assigned collects the <<texture, sampler>> pairs.
RECURSIVE AssignSamplers(_, _, _, _)
AssignSamplers(Desc, i, ResourcesByName, Assigned) ==
    IF i > Desc.NumResources
    THEN {[Error |-> CheckUnassignedSamplers(Desc, ResourcesByName), Assigned |-> Assigned]}
    ELSE LET Res == Desc.Resources[i] IN
         IF Res.ResourceType # SHADER_RESOURCE_TYPE_TEXTURE_SRV
         THEN AssignSamplers(Desc, i + 1, ResourcesByName, Assigned)
         ELSE LET AssignedSamplerName == Res.Name \o Desc.CombinedSamplerSuffix
                  sam_range == {k \in ResourcesByName : Desc.Resources[k].Name = AssignedSamplerName}
                  found == {k \in sam_range : SamplerStagesOverlap(Desc.Resources[k], Res)}
              IN  IF found = {}
                  THEN AssignSamplers(Desc, i + 1, ResourcesByName, Assigned)
                  ELSE UNION {
                         LET e == CheckAssignedSampler(Desc.Resources[k], Res) IN
                         IF e # "OK"
                         THEN {[Error |-> e, Assigned |-> Assigned]}
                         ELSE AssignSamplers(Desc, i + 1, ResourcesByName \ {k},
                                             Assigned \cup {<<i, k>>})
                         : k \in found }

\* The loop over Desc.ImmutableSamplers.
RECURSIVE ScanImmutableSamplers(_, _, _)
ScanImmutableSamplers(Desc, i, ImtblSamShaderStages) ==
    IF i > Desc.NumImmutableSamplers THEN "OK"
    ELSE LET SamDesc == Desc.ImmutableSamplers[i]
             UsedStages == UsedStagesOf(ImtblSamShaderStages, SamDesc.SamplerOrTextureName)
         IN  IF SamDesc.SamplerOrTextureName = nullptr THEN "ImmutableSamplerNameNull"
             ELSE IF SamDesc.SamplerOrTextureName = <<>> THEN "ImmutableSamplerNameEmpty"
             ELSE IF StagesOverlap(UsedStages, SamDesc.ShaderStages) THEN "ImmutableSamplerStagesOverlap"
             ELSE ScanImmutableSamplers(Desc, i + 1,
                      SetUsedStages(ImtblSamShaderStages, SamDesc.SamplerOrTextureName,
                                    AccumulateStages(UsedStages, SamDesc.ShaderStages)))

\* The set of outcomes of a call: Error is "OK" when the call returns and names
\* the throwing statement otherwise.
ValidatePipelineResourceSignatureDesc(Desc, RuntimeArraySupported) ==
    LET h == ValidateDescHeader(Desc)
        r == ScanResources(Desc, RuntimeArraySupported, 1, <<>>)
        c == IF Desc.UseCombinedTextureSamplers
             THEN AssignSamplers(Desc, 1, 1 .. Desc.NumResources, {})
             ELSE {[Error |-> "OK", Assigned |-> {}]}
    IN  IF h # "OK" THEN {[Error |-> h, Assigned |-> {}]}
        ELSE IF r # "OK" THEN {[Error |-> r, Assigned |-> {}]}
        ELSE { IF o.Error # "OK" THEN o
               ELSE [Error |-> ScanImmutableSamplers(Desc, 1, <<>>), Assigned |-> o.Assigned]
               : o \in c }

\* The error kind of the specification's taxonomy for each throwing statement.
ErrorKind(Error) ==
    CASE Error \in {"BindingIndexExceedsMax", "NumResourcesExceedsMax"} -> "LimitExceeded"
      [] Error \in {"ResourcesNull", "ImmutableSamplersNull", "CombinedSamplerSuffixNullOrEmpty",
                    "ResourceNameNull", "ResourceNameEmpty", "ResourceStagesUnknown",
                    "ResourceArraySizeZero", "ImmutableSamplerNameNull",
                    "ImmutableSamplerNameEmpty"} -> "NullOrEmptyField"
      [] Error = "ResourceStagesOverlap" -> "DuplicateNameOverlappingStages"
      [] Error \in {"RuntimeArrayNotSupported", "FlagsNotAllowed"} -> "InvalidFlagsForResourceType"
      [] Error \in {"AssignedResourceNotSampler", "SamplerStagesDiffer",
                    "SamplerVarTypeDiffers"} -> "CombinedSamplerMismatch"
      [] Error = "SamplerNotAssigned" -> "UnassignedSampler"
      [] Error = "ImmutableSamplerStagesOverlap" -> "DuplicateImmutableSampler"
      [] OTHER -> "OK"

-----------------------------------------------------------------------------
(* FindImmutableSampler                                                    *)

\* StreqSuff(ResourceName, SamplerOrTextureName, Suffix) of StringTools.hpp.
StreqSuff(ResourceName, SamplerOrTextureName, SamplerSuffix) ==
    \/ SamplerOrTextureName = ResourceName
    \/ /\ SamplerSuffix # nullptr
       /\ SamplerOrTextureName = ResourceName \o SamplerSuffix

\* Mutant of ImmutableSamplerMatches: the entry must cover the requested stages.
ImmutableSamplerMatchesAllStages(Sam, ShaderStages, ResourceName, SamplerSuffix) ==
    /\ (Sam.ShaderStages \cap ShaderStages) = ShaderStages
    /\ StreqSuff(ResourceName, Sam.SamplerOrTextureName, SamplerSuffix)

\* Sam matches the request: the condition of the if statement in the loop.
ImmutableSamplerMatches(Sam, ShaderStages, ResourceName, SamplerSuffix) ==
    /\ (Sam.ShaderStages \cap ShaderStages) # {}
    /\ StreqSuff(ResourceName, Sam.SamplerOrTextureName, SamplerSuffix)

\* The loop from index s on (s is 0-based as in the source).  Index is the value
\* returned; DevCheckFailed tells whether DEV_CHECK_ERR reported the match as
\* covering only some of the requested stages.
RECURSIVE FindImmutableSamplerFrom(_, _, _, _, _, _)
FindImmutableSamplerFrom(ImtblSamplers, NumImtblSamplers, ShaderStages, ResourceName, SamplerSuffix, s) ==
    IF ~(s < NumImtblSamplers)
    THEN [Index |-> InvalidImmutableSamplerIndex, DevCheckFailed |-> FALSE]
    ELSE LET Sam == ImtblSamplers[s + 1] IN
         IF ImmutableSamplerMatches(Sam, ShaderStages, ResourceName, SamplerSuffix)
         THEN [Index |-> s,
               DevCheckFailed |-> ~((Sam.ShaderStages \cap ShaderStages) = ShaderStages)]
         ELSE FindImmutableSamplerFrom(ImtblSamplers, NumImtblSamplers, ShaderStages,
                                       ResourceName, SamplerSuffix, s + 1)

FindImmutableSampler(ImtblSamplers, NumImtblSamplers, ShaderStages, ResourceName, SamplerSuffix) ==
    FindImmutableSamplerFrom(ImtblSamplers, NumImtblSamplers, ShaderStages,
                             ResourceName, SamplerSuffix, 0)

-----------------------------------------------------------------------------
(* PipelineResourceSignaturesCompatible                                    *)

\* Mutant of PipelineResourcesCompatible: the flags are not compared.
PipelineResourcesCompatibleWithoutFlags(lhs, rhs) ==
    /\ lhs.ShaderStages = rhs.ShaderStages
    /\ lhs.ArraySize = rhs.ArraySize
    /\ lhs.ResourceType = rhs.ResourceType
    /\ lhs.VarType = rhs.VarType

PipelineResourcesCompatible(lhs, rhs) ==
    /\ lhs.ShaderStages = rhs.ShaderStages
    /\ lhs.ArraySize = rhs.ArraySize
    /\ lhs.ResourceType = rhs.ResourceType
    /\ lhs.VarType = rhs.VarType
    /\ lhs.Flags = rhs.Flags

\* The condition under which the loop over the immutable samplers returns false.
ImmutableSamplersDiffer(Samp0, Samp1) ==
    \/ Samp0.ShaderStages # Samp1.ShaderStages
    \/ ~(Samp0.Desc = Samp1.Desc)

PipelineResourceSignaturesCompatible(D0, D1) ==
    IF D0.BindingIndex # D1.BindingIndex THEN FALSE
    ELSE IF D0.NumResources # D1.NumResources THEN FALSE
    ELSE IF \E r \in 1 .. D0.NumResources :
               ~PipelineResourcesCompatible(D0.Resources[r], D1.Resources[r]) THEN FALSE
    ELSE IF D0.NumImmutableSamplers # D1.NumImmutableSamplers THEN FALSE
    ELSE IF \E s \in 1 .. D0.NumImmutableSamplers :
               ImmutableSamplersDiffer(D0.ImmutableSamplers[s], D1.ImmutableSamplers[s]) THEN FALSE
    ELSE TRUE

-----------------------------------------------------------------------------
(* CalculatePipelineResourceSignatureDescHash                              *)
(* A hash value is the sequence of the values folded into it, in order; the *)
(* seed 0 is the empty sequence.                                           *)

HashCombine(Seed, Values) == Seed \o Values

ComputeHash(Values) == HashCombine(<<>>, Values)

\* The values std::hash<SamplerDesc> folds.
HashSamplerDesc(SamDesc) == <<SamDesc.MinFilter, SamDesc.AddressU>>

\* Mutant of ResourceHashValues: the name is folded too.
ResourceHashValuesWithName(Res) ==
    <<Res.Name, Uint32(Res.ShaderStages), Res.ArraySize, Res.ResourceType, Res.VarType,
      Uint32(Res.Flags)>>

\* The values folded for one resource.
ResourceHashValues(Res) ==
    <<Uint32(Res.ShaderStages), Res.ArraySize, Res.ResourceType, Res.VarType, Uint32(Res.Flags)>>

\* The values folded for one immutable sampler.
ImmutableSamplerHashValues(Sam) ==
    <<Uint32(Sam.ShaderStages)>> \o HashSamplerDesc(Sam.Desc)

RECURSIVE HashResources(_, _, _)
HashResources(Desc, i, Hash) ==
    IF i > Desc.NumResources THEN Hash
    ELSE HashResources(Desc, i + 1, HashCombine(Hash, ResourceHashValues(Desc.Resources[i])))

RECURSIVE HashImmutableSamplers(_, _, _)
HashImmutableSamplers(Desc, i, Hash) ==
    IF i > Desc.NumImmutableSamplers THEN Hash
    ELSE HashImmutableSamplers(Desc, i + 1,
             HashCombine(Hash, ImmutableSamplerHashValues(Desc.ImmutableSamplers[i])))

CalculatePipelineResourceSignatureDescHash(Desc) ==
    IF Desc.NumResources = 0 /\ Desc.NumImmutableSamplers = 0 THEN <<>>
    ELSE HashImmutableSamplers(Desc, 1,
             HashResources(Desc, 1,
                 ComputeHash(<<Desc.NumResources, Desc.NumImmutableSamplers, Desc.BindingIndex>>)))

-----------------------------------------------------------------------------
(* Inputs                                                                  *)

MaxResources == 3
MaxImmutableSamplers == 3
MaxCompatResources == 2
MaxCompatSamplers == 2

SHADER_TYPE_GEOMETRY == 4

StagesV == {SHADER_TYPE_VERTEX}
StagesP == {SHADER_TYPE_PIXEL}
StagesVP == {SHADER_TYPE_VERTEX, SHADER_TYPE_PIXEL}
StagesG == {SHADER_TYPE_GEOMETRY}

\* PipelineResourceDesc
ResourceDesc(Name, ShaderStages, ArraySize, ResourceType, VarType, Flags) ==
    [Name |-> Name, ShaderStages |-> ShaderStages, ArraySize |-> ArraySize,
     ResourceType |-> ResourceType, VarType |-> VarType, Flags |-> Flags]

\* ImmutableSamplerDesc
ImmutableSampler(ShaderStages, SamplerOrTextureName, SamDesc) ==
    [ShaderStages |-> ShaderStages, SamplerOrTextureName |-> SamplerOrTextureName,
     Desc |-> SamDesc]

\* PipelineResourceSignatureDesc over arrays that are not null
SignatureDesc(Name, Resources, ImmutableSamplers, BindingIndex, UseCombined, Suffix) ==
    [Name |-> Name,
     Resources |-> Resources, NumResources |-> Len(Resources),
     ImmutableSamplers |-> ImmutableSamplers, NumImmutableSamplers |-> Len(ImmutableSamplers),
     BindingIndex |-> BindingIndex,
     UseCombinedTextureSamplers |-> UseCombined, CombinedSamplerSuffix |-> Suffix]

SamplerLinear == [MinFilter |-> 2, AddressU |-> 1]
SamplerPoint == [MinFilter |-> 1, AddressU |-> 1]
SamplerLinearClamp == [MinFilter |-> 2, AddressU |-> 3]

Suffix_s == <<"s">>

Texture(Name, ShaderStages, VarType) ==
    ResourceDesc(Name, ShaderStages, 1, SHADER_RESOURCE_TYPE_TEXTURE_SRV, VarType, {})

Sampler(Name, ShaderStages, VarType) ==
    ResourceDesc(Name, ShaderStages, 1, SHADER_RESOURCE_TYPE_SAMPLER, VarType, {})

\* Resources of the descriptors validated with combined texture samplers.
CombinedPool ==
    {Texture(<<"t">>, st, SHADER_RESOURCE_VARIABLE_TYPE_STATIC) : st \in {StagesV, StagesP, StagesVP}}
    \cup {Sampler(<<"t", "s">>, st, SHADER_RESOURCE_VARIABLE_TYPE_STATIC) : st \in {StagesV, StagesP, StagesVP}}
    \cup {Texture(<<"t">>, StagesVP \cup StagesG, SHADER_RESOURCE_VARIABLE_TYPE_STATIC),
          Sampler(<<"t", "s">>, StagesG, SHADER_RESOURCE_VARIABLE_TYPE_STATIC),
          Texture(<<"t">>, StagesP, SHADER_RESOURCE_VARIABLE_TYPE_MUTABLE),
          Sampler(<<"t", "s">>, StagesP, SHADER_RESOURCE_VARIABLE_TYPE_MUTABLE),
          Texture(<<"t", "s">>, StagesP, SHADER_RESOURCE_VARIABLE_TYPE_STATIC),
          Sampler(<<"t">>, StagesP, SHADER_RESOURCE_VARIABLE_TYPE_STATIC),
          ResourceDesc(<<"u">>, StagesV, 1, SHADER_RESOURCE_TYPE_INPUT_ATTACHMENT,
                       SHADER_RESOURCE_VARIABLE_TYPE_STATIC, {})}

\* Resources of the descriptors that exercise the per-resource checks.
FieldPool ==
    {Texture(<<"x">>, st, SHADER_RESOURCE_VARIABLE_TYPE_STATIC) : st \in {StagesV, StagesP, StagesG, StagesVP}}
    \cup {Texture(n, StagesV, SHADER_RESOURCE_VARIABLE_TYPE_STATIC) : n \in {<<"y">>, nullptr, <<>>}}
    \cup {Texture(<<"z">>, SHADER_TYPE_UNKNOWN, SHADER_RESOURCE_VARIABLE_TYPE_STATIC),
          ResourceDesc(<<"z">>, StagesV, 0, SHADER_RESOURCE_TYPE_TEXTURE_SRV,
                       SHADER_RESOURCE_VARIABLE_TYPE_STATIC, {})}
    \cup {ResourceDesc(<<"z">>, StagesV, 1, ty, SHADER_RESOURCE_VARIABLE_TYPE_STATIC, fl) :
            ty \in {SHADER_RESOURCE_TYPE_TEXTURE_SRV, SHADER_RESOURCE_TYPE_INPUT_ATTACHMENT},
            fl \in {{PIPELINE_RESOURCE_FLAG_RUNTIME_ARRAY}}}
    \cup {ResourceDesc(<<"z">>, StagesV, 1, SHADER_RESOURCE_TYPE_SAMPLER,
                       SHADER_RESOURCE_VARIABLE_TYPE_STATIC, fl) :
            fl \in {{PIPELINE_RESOURCE_FLAG_RUNTIME_ARRAY}, {PIPELINE_RESOURCE_FLAG_COMBINED_SAMPLER},
                    {PIPELINE_RESOURCE_FLAG_RUNTIME_ARRAY, PIPELINE_RESOURCE_FLAG_COMBINED_SAMPLER}}}

\* Immutable samplers of the validated descriptors.
ImmutablePool ==
    {ImmutableSampler(st, <<"x">>, SamplerLinear) : st \in {StagesV, StagesP, StagesVP, SHADER_TYPE_UNKNOWN}}
    \cup {ImmutableSampler(StagesV, n, SamplerLinear) : n \in {<<"y">>, nullptr, <<>>}}

\* Immutable samplers searched by FindImmutableSampler.
FindPool ==
    {ImmutableSampler(st, n, SamplerLinear) :
        st \in {StagesV, StagesP, StagesVP}, n \in {<<"t">>, <<"t", "s">>, <<"u">>}}

\* Resources and immutable samplers of the descriptors compared and hashed.
CompatBaseResource ==
    ResourceDesc(<<"a">>, StagesV, 1, SHADER_RESOURCE_TYPE_TEXTURE_SRV,
                 SHADER_RESOURCE_VARIABLE_TYPE_STATIC, {})

CompatPool ==
    {CompatBaseResource,
     [CompatBaseResource EXCEPT !.Name = <<"b">>],
     [CompatBaseResource EXCEPT !.ShaderStages = StagesP],
     [CompatBaseResource EXCEPT !.ArraySize = 2],
     [CompatBaseResource EXCEPT !.ResourceType = SHADER_RESOURCE_TYPE_SAMPLER],
     [CompatBaseResource EXCEPT !.VarType = SHADER_RESOURCE_VARIABLE_TYPE_MUTABLE],
     [CompatBaseResource EXCEPT !.Flags = {PIPELINE_RESOURCE_FLAG_RUNTIME_ARRAY}]}

CompatSamplerPool ==
    {ImmutableSampler(StagesV, <<"a">>, SamplerLinear),
     ImmutableSampler(StagesV, <<"b">>, SamplerLinear),
     ImmutableSampler(StagesP, <<"a">>, SamplerLinear),
     ImmutableSampler(StagesV, <<"a">>, SamplerPoint),
     ImmutableSampler(StagesV, <<"a">>, SamplerLinearClamp)}

\* Descriptors that differ in the fields outside the two arrays.
CompatSettingDescs ==
    {SignatureDesc(n, rs, <<>>, bi, cs[1], cs[2]) :
        n \in {<<"A">>, <<"B">>, nullptr},
        rs \in {<<>>, <<CompatBaseResource>>},
        bi \in {0, 1},
        cs \in {<<FALSE, nullptr>>, <<TRUE, Suffix_s>>, <<TRUE, <<"_", "s">> >>}}

-----------------------------------------------------------------------------
(* The callers                                                             *)

NoDesc == SignatureDesc(nullptr, <<>>, <<>>, 0, FALSE, nullptr)
NoFindArgs == [ImtblSamplers |-> <<>>, ShaderStages |-> {}, ResourceName |-> nullptr,
               SamplerSuffix |-> nullptr]
NoValidateResult == [Error |-> "NotCalled", Assigned |-> {}]
NoFindResult == [Index |-> InvalidImmutableSamplerIndex, DevCheckFailed |-> FALSE]

InitResults ==
    /\ pc = "ready"
    /\ ValidateResult = NoValidateResult
    /\ FindResult = NoFindResult
    /\ CompatResult = FALSE
    /\ Hash0 = <<>>
    /\ Hash1 = <<>>

TextureX == Texture(<<"x">>, StagesV, SHADER_RESOURCE_VARIABLE_TYPE_STATIC)

\* The descriptors validated with combined texture samplers.
InitCombined ==
    \E n \in 0 .. MaxResources : \E rs \in [1 .. n -> CombinedPool] :
        /\ Desc0 = SignatureDesc(<<"A">>, rs, <<>>, 0, TRUE, Suffix_s)
        /\ ShaderResourceRuntimeArraySupported = TRUE

\* The descriptors that exercise the per-resource checks, with and without the capability.
InitFields ==
    \E n \in 0 .. MaxResources : \E rs \in [1 .. n -> FieldPool] :
        /\ Desc0 = SignatureDesc(<<"A">>, rs, <<>>, 0, FALSE, nullptr)
        /\ ShaderResourceRuntimeArraySupported \in BOOLEAN

\* The descriptors with immutable samplers.
InitImmutable ==
    \E n \in 0 .. MaxImmutableSamplers : \E is \in [1 .. n -> ImmutablePool] :
    \E rs \in {<<>>, <<TextureX>>, <<TextureX, TextureX>>} :
        /\ Desc0 = SignatureDesc(<<"A">>, rs, is, 0, FALSE, nullptr)
        /\ ShaderResourceRuntimeArraySupported = TRUE

\* The descriptors that exercise the checks made before the loops.
InitHeader ==
    /\ \/ \E n \in 0 .. 2 :
          \E rs \in [1 .. n -> {Texture(<<"t">>, StagesP, SHADER_RESOURCE_VARIABLE_TYPE_STATIC),
                                Sampler(<<"t", "s">>, StagesV, SHADER_RESOURCE_VARIABLE_TYPE_STATIC),
                                Sampler(<<"t", "s">>, StagesP, SHADER_RESOURCE_VARIABLE_TYPE_STATIC)}] :
          \E bi \in {0, 7, 8}, uc \in BOOLEAN, sf \in {nullptr, <<>>, Suffix_s} :
              Desc0 = SignatureDesc(nullptr, rs, <<>>, bi, uc, sf)
       \/ Desc0 = [SignatureDesc(<<"A">>, <<>>, <<>>, 0, FALSE, nullptr) EXCEPT !.NumResources = 1]
       \/ Desc0 = [SignatureDesc(<<"A">>, <<>>, <<>>, 0, FALSE, nullptr)
                       EXCEPT !.NumImmutableSamplers = 1]
    /\ ShaderResourceRuntimeArraySupported = TRUE

InitValidate ==
    /\ InitResults
    /\ InitCombined \/ InitFields \/ InitImmutable \/ InitHeader
    /\ Desc1 = NoDesc
    /\ FindArgs = NoFindArgs

InitFind ==
    /\ InitResults
    /\ \E n \in 0 .. MaxImmutableSamplers : \E is \in [1 .. n -> FindPool] :
       \E st \in {StagesV, StagesP, StagesVP} :
       \E rn \in {<<"t">>, <<"t", "s">>} :
       \E sf \in {nullptr, Suffix_s} :
           FindArgs = [ImtblSamplers |-> is, ShaderStages |-> st, ResourceName |-> rn,
                       SamplerSuffix |-> sf]
    /\ Desc0 = NoDesc
    /\ Desc1 = NoDesc
    /\ ShaderResourceRuntimeArraySupported = FALSE

\* Pairs of descriptors that differ in their resources.
InitCompatResources ==
    \E n0, n1 \in 0 .. MaxCompatResources :
    \E rs0 \in [1 .. n0 -> CompatPool] : \E rs1 \in [1 .. n1 -> CompatPool] :
        /\ Desc0 = SignatureDesc(<<"A">>, rs0, <<>>, 0, FALSE, nullptr)
        /\ Desc1 = SignatureDesc(<<"A">>, rs1, <<>>, 0, FALSE, nullptr)

\* Pairs of descriptors that differ in their immutable samplers.
InitCompatSamplers ==
    \E n0, n1 \in 0 .. MaxCompatSamplers :
    \E is0 \in [1 .. n0 -> CompatSamplerPool] : \E is1 \in [1 .. n1 -> CompatSamplerPool] :
        /\ Desc0 = SignatureDesc(<<"A">>, <<CompatBaseResource>>, is0, 0, FALSE, nullptr)
        /\ Desc1 = SignatureDesc(<<"A">>, <<CompatBaseResource>>, is1, 0, FALSE, nullptr)

InitCompatSettings ==
    /\ Desc0 \in CompatSettingDescs
    /\ Desc1 \in CompatSettingDescs

InitCompat ==
    /\ InitResults
    /\ InitCompatResources \/ InitCompatSamplers \/ InitCompatSettings
    /\ ShaderResourceRuntimeArraySupported = FALSE
    /\ FindArgs = NoFindArgs

\* A call of ValidatePipelineResourceSignatureDesc(Desc0, ShaderResourceRuntimeArraySupported).
Validate ==
    /\ pc = "ready"
    /\ \E o \in ValidatePipelineResourceSignatureDesc(Desc0, ShaderResourceRuntimeArraySupported) :
         ValidateResult' = o
    /\ pc' = "validated"
    /\ UNCHANGED <<Desc0, Desc1, ShaderResourceRuntimeArraySupported, FindArgs,
                   FindResult, CompatResult, Hash0, Hash1>>

\* A call of FindImmutableSampler.
Find ==
    /\ pc = "ready"
    /\ FindResult' = FindImmutableSampler(FindArgs.ImtblSamplers, Len(FindArgs.ImtblSamplers),
                                          FindArgs.ShaderStages, FindArgs.ResourceName,
                                          FindArgs.SamplerSuffix)
    /\ pc' = "found"
    /\ UNCHANGED <<Desc0, Desc1, ShaderResourceRuntimeArraySupported, FindArgs,
                   ValidateResult, CompatResult, Hash0, Hash1>>

\* A call of PipelineResourceSignaturesCompatible(Desc0, Desc1).
Compatible ==
    /\ pc = "ready"
    /\ CompatResult' = PipelineResourceSignaturesCompatible(Desc0, Desc1)
    /\ pc' = "compared"
    /\ UNCHANGED <<Desc0, Desc1, ShaderResourceRuntimeArraySupported, FindArgs,
                   ValidateResult, FindResult, Hash0, Hash1>>

\* The calls of CalculatePipelineResourceSignatureDescHash on both descriptors.
HashDesc0 ==
    /\ pc = "compared"
    /\ Hash0' = CalculatePipelineResourceSignatureDescHash(Desc0)
    /\ pc' = "hashed0"
    /\ UNCHANGED <<Desc0, Desc1, ShaderResourceRuntimeArraySupported, FindArgs,
                   ValidateResult, FindResult, CompatResult, Hash1>>

HashDesc1 ==
    /\ pc = "hashed0"
    /\ Hash1' = CalculatePipelineResourceSignatureDescHash(Desc1)
    /\ pc' = "hashed"
    /\ UNCHANGED <<Desc0, Desc1, ShaderResourceRuntimeArraySupported, FindArgs,
                   ValidateResult, FindResult, CompatResult, Hash0>>

NextValidate == Validate
NextFind == Find
NextCompat == Compatible \/ HashDesc0 \/ HashDesc1

SpecValidate == InitValidate /\ [][NextValidate]_vars
SpecFind == InitFind /\ [][NextFind]_vars
SpecCompat == InitCompat /\ [][NextCompat]_vars

-----------------------------------------------------------------------------
(* Properties of PipelineResourceSignaturesCompatible and of the hash      *)

\* C1: when PipelineResourceSignaturesCompatible(Desc0, Desc1) returned true, the
\* hashes of Desc0 and Desc1 are equal (descriptors without resources and
\* immutable samplers included).
C1_HashLaw ==
    (pc = "hashed" /\ CompatResult) => Hash0 = Hash1

\* Two compatible descriptors with resources that differ in a name were hashed.
C1_Witness ==
    /\ pc = "hashed"
    /\ CompatResult
    /\ Desc0.NumResources = 2
    /\ Desc0.Resources[1].Name # Desc1.Resources[1].Name
    /\ Hash0 = Hash1

\* The fields of a resource that the comparison is documented to read.
SameStructure(r0, r1) ==
    /\ r0.ShaderStages = r1.ShaderStages
    /\ r0.ArraySize = r1.ArraySize
    /\ r0.ResourceType = r1.ResourceType
    /\ r0.VarType = r1.VarType
    /\ r0.Flags = r1.Flags

StructurallyEqual(D0, D1) ==
    /\ D0.BindingIndex = D1.BindingIndex
    /\ D0.NumResources = D1.NumResources
    /\ \A i \in 1 .. D0.NumResources : SameStructure(D0.Resources[i], D1.Resources[i])
    /\ D0.NumImmutableSamplers = D1.NumImmutableSamplers
    /\ \A i \in 1 .. D0.NumImmutableSamplers :
         /\ D0.ImmutableSamplers[i].ShaderStages = D1.ImmutableSamplers[i].ShaderStages
         /\ D0.ImmutableSamplers[i].Desc = D1.ImmutableSamplers[i].Desc

\* Desc with every name and the combined-sampler settings erased.
WithoutNames(Desc) ==
    [Desc EXCEPT !.Name = nullptr,
                 !.UseCombinedTextureSamplers = FALSE,
                 !.CombinedSamplerSuffix = nullptr,
                 !.Resources = [i \in 1 .. Len(Desc.Resources) |->
                                  [Desc.Resources[i] EXCEPT !.Name = nullptr]],
                 !.ImmutableSamplers = [i \in 1 .. Len(Desc.ImmutableSamplers) |->
                                  [Desc.ImmutableSamplers[i] EXCEPT !.SamplerOrTextureName = nullptr]]]

Swapped(seq, i, j) ==
    [k \in 1 .. Len(seq) |-> IF k = i THEN seq[j] ELSE IF k = j THEN seq[i] ELSE seq[k]]

\* C2: PipelineResourceSignaturesCompatible returns true exactly when the binding
\* indices are equal, the resources agree position by position on stages, array
\* size, type, variable type and flags, and the immutable samplers agree position
\* by position on stages and sampler state; descriptors that differ only in names,
\* combined-sampler settings or display name are compatible; a descriptor with two
\* structurally different resources swapped is not compatible with the original.
C2_Compatible ==
    pc # "ready" =>
        /\ CompatResult <=> StructurallyEqual(Desc0, Desc1)
        /\ WithoutNames(Desc0) = WithoutNames(Desc1) => CompatResult
        /\ \A i, j \in 1 .. Desc0.NumResources :
             ( /\ i < j
               /\ ~SameStructure(Desc0.Resources[i], Desc0.Resources[j])
               /\ Desc1 = [Desc0 EXCEPT !.Resources = Swapped(Desc0.Resources, i, j)] )
             => ~CompatResult

\* Two descriptors that differ in a resource name and in an immutable sampler's
\* name were found compatible.
C2_Witness ==
    /\ pc = "compared"
    /\ CompatResult
    /\ Desc0.NumResources = 1
    /\ Desc0.NumImmutableSamplers = 2
    /\ Desc0.ImmutableSamplers[2].SamplerOrTextureName # Desc1.ImmutableSamplers[2].SamplerOrTextureName
    /\ Desc0.ImmutableSamplers[1].Desc # Desc0.ImmutableSamplers[2].Desc

-----------------------------------------------------------------------------
(* Properties of FindImmutableSampler                                      *)

\* The 0-based indices of the entries that satisfy the documented condition.
MatchingEntries(a) ==
    {s \in 0 .. Len(a.ImtblSamplers) - 1 :
        /\ (a.ImtblSamplers[s + 1].ShaderStages \cap a.ShaderStages) # {}
        /\ \/ a.ImtblSamplers[s + 1].SamplerOrTextureName = a.ResourceName
           \/ /\ a.SamplerSuffix # nullptr
              /\ a.ImtblSamplers[s + 1].SamplerOrTextureName = a.ResourceName \o a.SamplerSuffix}

\* C8: FindImmutableSampler returns the smallest index whose entry intersects the
\* requested stages and is named ResourceName or ResourceName ++ suffix, and
\* InvalidImmutableSamplerIndex exactly when there is no such entry; the index is
\* returned also when the entry's stages do not cover the requested ones.
C8_FindImmutableSampler ==
    pc = "found" =>
        LET m == MatchingEntries(FindArgs) IN
        /\ (FindResult.Index = InvalidImmutableSamplerIndex) <=> (m = {})
        /\ m # {} => /\ FindResult.Index \in m
                     /\ \A s \in m : FindResult.Index <= s
        /\ FindResult.DevCheckFailed =>
             /\ FindResult.Index \in m
             /\ ~(FindArgs.ShaderStages \subseteq
                    FindArgs.ImtblSamplers[FindResult.Index + 1].ShaderStages)

\* The third entry was returned for a suffixed name, although it covers only one
\* of the two requested stages.
C8_Witness ==
    /\ pc = "found"
    /\ FindResult.Index = 2
    /\ FindResult.DevCheckFailed
    /\ FindArgs.ImtblSamplers[3].SamplerOrTextureName # FindArgs.ResourceName

-----------------------------------------------------------------------------
(* Properties of ValidatePipelineResourceSignatureDesc                     *)

Resources0 == Desc0.Resources

\* The indices of the resources of Desc0 (none when the array is null).
ResourceIndices == 1 .. Len(Resources0)

IsTexture(r) == r.ResourceType = SHADER_RESOURCE_TYPE_TEXTURE_SRV
IsSampler(r) == r.ResourceType = SHADER_RESOURCE_TYPE_SAMPLER
Overlapping(r0, r1) == (r0.ShaderStages \cap r1.ShaderStages) # {}

\* The throwing statements before the combined-sampler block.
HeaderAndResourceErrors ==
    {"BindingIndexExceedsMax", "NumResourcesExceedsMax", "ResourcesNull", "ImmutableSamplersNull",
     "CombinedSamplerSuffixNullOrEmpty", "ResourceNameNull", "ResourceNameEmpty",
     "ResourceStagesUnknown", "ResourceArraySizeZero", "ResourceStagesOverlap",
     "RuntimeArrayNotSupported", "FlagsNotAllowed"}

\* The call has returned or thrown, combined texture samplers are in use and all
\* resources passed the per-resource checks.
ReachedSamplerAssignment ==
    /\ pc = "validated"
    /\ Desc0.UseCombinedTextureSamplers
    /\ ValidateResult.Error \notin HeaderAndResourceErrors

\* Resource k is named as the sampler of texture i.
NamedSamplerOf(i, k) ==
    Resources0[k].Name = Resources0[i].Name \o Desc0.CombinedSamplerSuffix

\* The resources named as texture i's sampler whose stages overlap the texture's.
Candidates(i) ==
    {k \in ResourceIndices : NamedSamplerOf(i, k) /\ Overlapping(Resources0[k], Resources0[i])}

\* Texture i and sampler k are as in the scenario: k is a sampler named as i's,
\* of the same variable type, with a different stage mask.
MismatchedStagesPair(i, k) ==
    /\ IsTexture(Resources0[i])
    /\ IsSampler(Resources0[k])
    /\ NamedSamplerOf(i, k)
    /\ Resources0[k].VarType = Resources0[i].VarType
    /\ Resources0[k].ShaderStages # Resources0[i].ShaderStages

\* C3 as stated: a descriptor with a texture and a sampler named as the texture's,
\* of the same variable type and a different stage mask, is rejected with
\* CombinedSamplerMismatch, whatever the sampler's stage mask.
C3_AsStated ==
    ReachedSamplerAssignment =>
        \A i, k \in ResourceIndices :
            MismatchedStagesPair(i, k) =>
                ErrorKind(ValidateResult.Error) = "CombinedSamplerMismatch"

\* C3 amended: such a descriptor is rejected with CombinedSamplerMismatch when the
\* sampler's stage mask overlaps the texture's.  When the masks are disjoint the
\* sampler is never assigned to the texture, and unless the texture scan throws a
\* CombinedSamplerMismatch or another texture of the same name has exactly the
\* sampler's stage mask, the descriptor is rejected with UnassignedSampler.
C3_MismatchOnlyWhenOverlapping ==
    ReachedSamplerAssignment =>
        \A i, k \in ResourceIndices :
            MismatchedStagesPair(i, k) =>
                IF Overlapping(Resources0[k], Resources0[i])
                THEN ErrorKind(ValidateResult.Error) = "CombinedSamplerMismatch"
                ELSE /\ <<i, k>> \notin ValidateResult.Assigned
                     /\ ( \A j \in ResourceIndices :
                            ~( /\ IsTexture(Resources0[j])
                               /\ Resources0[j].Name = Resources0[i].Name
                               /\ Resources0[j].ShaderStages = Resources0[k].ShaderStages ) )
                        => ErrorKind(ValidateResult.Error) \in
                               {"CombinedSamplerMismatch", "UnassignedSampler"}
                     /\ Len(Resources0) = 2 => ErrorKind(ValidateResult.Error) = "UnassignedSampler"

\* Scenario D: a pixel-stage texture and its vertex-stage sampler were validated.
C3_Witness ==
    /\ ReachedSamplerAssignment
    /\ Len(Resources0) = 2
    /\ MismatchedStagesPair(1, 2)
    /\ Resources0[1].ShaderStages = StagesP
    /\ Resources0[2].ShaderStages = StagesV
    /\ ValidateResult.Error = "SamplerNotAssigned"

\* Texture i matches sampler k as the assignment requires.
MatchingTexture(i, k) ==
    /\ IsTexture(Resources0[i])
    /\ NamedSamplerOf(i, k)
    /\ Resources0[i].ShaderStages = Resources0[k].ShaderStages
    /\ Resources0[i].VarType = Resources0[k].VarType

\* No texture has a candidate that fails the checks on the assigned sampler.
NoMismatchedCandidate ==
    \A i \in ResourceIndices :
        IsTexture(Resources0[i]) =>
            \A k \in Candidates(i) :
                /\ IsSampler(Resources0[k])
                /\ Resources0[k].ShaderStages = Resources0[i].ShaderStages
                /\ Resources0[k].VarType = Resources0[i].VarType

\* C4: with combined texture samplers, validation succeeds only if every sampler
\* was assigned to a texture of the descriptor whose name with the suffix is the
\* sampler's name and whose stage mask and variable type equal the sampler's; a
\* descriptor without any other violation in which some sampler has no such
\* texture fails with UnassignedSampler.
C4_EverySamplerAssigned ==
    ReachedSamplerAssignment =>
        /\ ValidateResult.Error = "OK" =>
             \A k \in ResourceIndices :
                 IsSampler(Resources0[k]) =>
                     \E i \in ResourceIndices :
                         MatchingTexture(i, k) /\ <<i, k>> \in ValidateResult.Assigned
        /\ ( /\ NoMismatchedCandidate
             /\ \E k \in ResourceIndices :
                  /\ IsSampler(Resources0[k])
                  /\ ~\E i \in ResourceIndices : MatchingTexture(i, k) )
           => ErrorKind(ValidateResult.Error) = "UnassignedSampler"

\* One sampler was assigned to its texture and another one was left unassigned.
C4_Witness ==
    /\ ReachedSamplerAssignment
    /\ ValidateResult.Assigned # {}
    /\ ValidateResult.Error = "SamplerNotAssigned"

\* Desc0 without resource i.
WithoutResource(i) ==
    [Desc0 EXCEPT !.Resources = [k \in 1 .. Len(Resources0) - 1 |->
                                    IF k < i THEN Resources0[k] ELSE Resources0[k + 1]],
                  !.NumResources = Len(Resources0) - 1]

\* Resource i is a texture without any candidate, and is no candidate itself.
UnmatchedTexture(i) ==
    /\ IsTexture(Resources0[i])
    /\ Candidates(i) = {}
    /\ \A j \in ResourceIndices : IsTexture(Resources0[j]) => i \notin Candidates(j)

\* C5: with combined texture samplers, a texture for which no resource named
\* name ++ suffix overlaps its stages causes no failure: when the resources pass
\* the per-resource checks and the descriptor without that texture is accepted,
\* the descriptor is accepted.
C5_UnmatchedTextureAccepted ==
    ReachedSamplerAssignment =>
        \A i \in ResourceIndices :
            ( /\ UnmatchedTexture(i)
              /\ \A o \in ValidatePipelineResourceSignatureDesc(
                              WithoutResource(i), ShaderResourceRuntimeArraySupported) :
                     o.Error = "OK" )
            => ValidateResult.Error = "OK"

\* A descriptor was accepted in which one texture took a sampler and another
\* texture of the same name had none.
C5_Witness ==
    /\ ReachedSamplerAssignment
    /\ ValidateResult.Error = "OK"
    /\ ValidateResult.Assigned # {}
    /\ \E i \in ResourceIndices : UnmatchedTexture(i)


\* Resource r passes the per-resource checks other than the one on duplicate names.
FieldsValid(r, RuntimeArraySupported) ==
    /\ r.Name # nullptr
    /\ r.Name # <<>>
    /\ r.ShaderStages # {}
    /\ r.ArraySize >= 1
    /\ r.Flags \subseteq GetValidPipelineResourceFlags(r.ResourceType)
    /\ PIPELINE_RESOURCE_FLAG_RUNTIME_ARRAY \in r.Flags => RuntimeArraySupported

\* Two entries of seq carry the same name in overlapping stages.
DuplicateOverlap(seq, Names) ==
    \E i, j \in 1 .. Len(seq) :
        /\ i < j
        /\ Names[i] = Names[j]
        /\ (seq[i].ShaderStages \cap seq[j].ShaderStages) # {}

ResourceNames == [i \in ResourceIndices |-> Resources0[i].Name]

ImmutableSamplerNames ==
    [i \in 1 .. Len(Desc0.ImmutableSamplers) |-> Desc0.ImmutableSamplers[i].SamplerOrTextureName]

\* Every check other than those on duplicate names passes: the header, the
\* fields of every resource, the combined-sampler rules and the names of the
\* immutable samplers.
OtherChecksPass ==
    /\ ValidateDescHeader(Desc0) = "OK"
    /\ \A i \in ResourceIndices : FieldsValid(Resources0[i], ShaderResourceRuntimeArraySupported)
    /\ Desc0.UseCombinedTextureSamplers =>
         /\ NoMismatchedCandidate
         /\ \A k \in ResourceIndices :
              IsSampler(Resources0[k]) => \E i \in ResourceIndices : MatchingTexture(i, k)
    /\ \A i \in 1 .. Len(Desc0.ImmutableSamplers) :
         ImmutableSamplerNames[i] \notin {nullptr, <<>>}

\* C6: a descriptor that passes every other check fails with
\* DuplicateNameOverlappingStages exactly when two resources have equal names and
\* overlapping stage masks; the immutable samplers are checked by the same rule
\* on their own, so that a name shared by a resource and an immutable sampler in
\* overlapping stages is no conflict.
C6_DuplicateNames ==
    pc = "validated" =>
        /\ ValidateResult.Error = "ResourceStagesOverlap" => DuplicateOverlap(Resources0, ResourceNames)
        /\ ValidateResult.Error = "ImmutableSamplerStagesOverlap" =>
               DuplicateOverlap(Desc0.ImmutableSamplers, ImmutableSamplerNames)
        /\ OtherChecksPass =>
               /\ DuplicateOverlap(Resources0, ResourceNames) <=>
                      ErrorKind(ValidateResult.Error) = "DuplicateNameOverlappingStages"
               /\ ( ~DuplicateOverlap(Resources0, ResourceNames)
                    /\ DuplicateOverlap(Desc0.ImmutableSamplers, ImmutableSamplerNames) )
                  <=> ValidateResult.Error = "ImmutableSamplerStagesOverlap"
               /\ ( ~DuplicateOverlap(Resources0, ResourceNames)
                    /\ ~DuplicateOverlap(Desc0.ImmutableSamplers, ImmutableSamplerNames) )
                  <=> ValidateResult.Error = "OK"

\* The third resource repeats the name and a stage of the first one, the second
\* one shares the name in another stage, and the call failed on the duplicate.
C6_Witness ==
    /\ pc = "validated"
    /\ OtherChecksPass
    /\ Len(Resources0) = 3
    /\ ResourceNames[1] = ResourceNames[2]
    /\ ResourceNames[1] = ResourceNames[3]
    /\ ~Overlapping(Resources0[1], Resources0[2])
    /\ ~Overlapping(Resources0[2], Resources0[3])
    /\ Overlapping(Resources0[1], Resources0[3])
    /\ ValidateResult.Error = "ResourceStagesOverlap"

\* Desc0 with the flags of resource i cleared.
WithoutFlags(i) ==
    [Desc0 EXCEPT !.Resources = [Resources0 EXCEPT ![i] = [Resources0[i] EXCEPT !.Flags = {}]]]

\* Desc0 has no violation besides the flags of resource i: with them cleared it is accepted.
NoOtherViolation(i, RuntimeArraySupported) ==
    \A o \in ValidatePipelineResourceSignatureDesc(WithoutFlags(i), RuntimeArraySupported) :
        o.Error = "OK"

HasRuntimeArrayFlag(r) == PIPELINE_RESOURCE_FLAG_RUNTIME_ARRAY \in r.Flags

RuntimeArrayAllowed(r) ==
    PIPELINE_RESOURCE_FLAG_RUNTIME_ARRAY \in GetValidPipelineResourceFlags(r.ResourceType)

\* C7: in a descriptor with no other violation, a resource with the runtime-array
\* flag on a type that does not allow it fails with InvalidFlagsForResourceType
\* with and without the capability; the flag on a type that allows it, with all
\* flags legal, fails (with that kind) exactly when the capability is false; and
\* every descriptor with a resource whose flags are not all legal for its type is
\* rejected.
C7_FlagLegality ==
    pc = "validated" =>
        \A i \in ResourceIndices :
            LET r == Resources0[i]
                cap == ShaderResourceRuntimeArraySupported
            IN  /\ ( HasRuntimeArrayFlag(r) /\ ~RuntimeArrayAllowed(r) /\ NoOtherViolation(i, cap) )
                   => /\ ErrorKind(ValidateResult.Error) = "InvalidFlagsForResourceType"
                      /\ \A o \in ValidatePipelineResourceSignatureDesc(Desc0, ~cap) :
                             ErrorKind(o.Error) = "InvalidFlagsForResourceType"
                /\ ( /\ HasRuntimeArrayFlag(r)
                     /\ r.Flags \subseteq GetValidPipelineResourceFlags(r.ResourceType)
                     /\ NoOtherViolation(i, cap) )
                   => /\ (ValidateResult.Error # "OK") <=> ~cap
                      /\ ~cap => ErrorKind(ValidateResult.Error) = "InvalidFlagsForResourceType"
                /\ ( /\ ValidateDescHeader(Desc0) = "OK"
                     /\ ~(r.Flags \subseteq GetValidPipelineResourceFlags(r.ResourceType)) )
                   => ValidateResult.Error # "OK"

\* With the capability, the second resource carried the runtime-array flag on a
\* type that does not allow it and the call failed on its flags.
C7_Witness ==
    /\ pc = "validated"
    /\ ShaderResourceRuntimeArraySupported
    /\ Len(Resources0) = 2
    /\ HasRuntimeArrayFlag(Resources0[2])
    /\ ~RuntimeArrayAllowed(Resources0[2])
    /\ NoOtherViolation(2, TRUE)
    /\ ValidateResult.Error = "FlagsNotAllowed"

\* C9 as stated: once the resources passed the per-resource checks, at most one
\* resource named as a texture's sampler overlaps the texture's stages.
C9_AsStated ==
    ReachedSamplerAssignment =>
        \A i \in ResourceIndices :
            IsTexture(Resources0[i]) => Cardinality(Candidates(i)) <= 1

\* C9 amended: once the resources passed the per-resource checks, at most one
\* resource named as a texture's sampler has the texture's stage mask, and it is
\* then the only one that overlaps the texture's stages; several resources of
\* that name with disjoint masks can overlap a texture of several stages, each
\* then differs from the texture's mask, and whichever is enumerated first the
\* call fails with CombinedSamplerMismatch: the error kind and, on success, the
\* assignment do not depend on the enumeration order.
C9_OutcomeIndependentOfEnumeration ==
    ReachedSamplerAssignment =>
        /\ \A i \in ResourceIndices :
             IsTexture(Resources0[i]) =>
                 /\ ( \E k \in Candidates(i) :
                          Resources0[k].ShaderStages = Resources0[i].ShaderStages )
                    => Cardinality(Candidates(i)) = 1
                 /\ Cardinality(Candidates(i)) > 1 =>
                        ErrorKind(ValidateResult.Error) = "CombinedSamplerMismatch"
        /\ \A o \in ValidatePipelineResourceSignatureDesc(Desc0, ShaderResourceRuntimeArraySupported) :
             /\ ErrorKind(o.Error) = ErrorKind(ValidateResult.Error)
             /\ o.Error = "OK" => o.Assigned = ValidateResult.Assigned

\* A texture of two stages had two candidates of disjoint stages, and the call
\* failed on the stages of one of them.
C9_Witness ==
    /\ ReachedSamplerAssignment
    /\ \E i \in ResourceIndices :
         /\ IsTexture(Resources0[i])
         /\ Cardinality(Candidates(i)) = 2
         /\ \A k \in Candidates(i) : IsSampler(Resources0[k])
    /\ ValidateResult.Error = "SamplerStagesDiffer"

\* The permutations of 1 .. n.
Permutations1(n) == {f \in [1 .. n -> 1 .. n] : \A a, b \in 1 .. n : f[a] = f[b] => a = b}

\* Desc0 with its resources and immutable samplers reordered.
Reordered(f, g) ==
    [Desc0 EXCEPT !.Resources = [k \in 1 .. Len(Resources0) |-> Resources0[f[k]]],
                  !.ImmutableSamplers = [k \in 1 .. Len(Desc0.ImmutableSamplers) |->
                                            Desc0.ImmutableSamplers[g[k]]]]

\* C10: a descriptor is accepted exactly when each descriptor obtained from it by
\* reordering the resources and the immutable samplers is accepted, whatever the
\* enumeration order of the entries of one name; no sampler is assigned to two
\* textures.
C10_OrderIndependent ==
    pc = "validated" =>
        /\ \A f \in Permutations1(Len(Resources0)) :
           \A g \in Permutations1(Len(Desc0.ImmutableSamplers)) :
           \A o \in ValidatePipelineResourceSignatureDesc(
                        Reordered(f, g), ShaderResourceRuntimeArraySupported) :
               (o.Error = "OK") <=> (ValidateResult.Error = "OK")
        /\ \A a, b \in ValidateResult.Assigned : a[2] = b[2] => a = b

\* A descriptor of three resources was accepted in which the sampler precedes
\* the texture that takes it and a second texture follows.
C10_Witness ==
    /\ ReachedSamplerAssignment
    /\ ValidateResult.Error = "OK"
    /\ Len(Resources0) = 3
    /\ <<2, 1>> \in ValidateResult.Assigned
    /\ IsTexture(Resources0[3])

====
